---------------------------- MODULE Spec2Model ----------------------------
(***************************************************************************)
(* A model of proj2_nps.py: the URL-keyed response cache kept in one JSON  *)
(* document on disk, the key builder of the places API, the scraping of    *)
(* the parks site (state index, site records), the rendering of the places *)
(* result and the interactive loop.                                        *)
(*                                                                         *)
(* Python strings are TLA+ strings (sequences of characters).  A Python    *)
(* value is a record with a field t naming its type.  A call that may      *)
(* raise yields a record with a field exc, "None" when it returned.        *)
(***************************************************************************)
EXTENDS Integers, Sequences, FiniteSets, TLC

VARIABLES
    disk,            \* the content of the file CACHE_FILENAME
    calls,           \* the cached-request calls made so far, oldest first
    pc,              \* the position of the program
    args,            \* the arguments of the function being applied; in
                     \* __main__, the lines read from the input so far
    ret,             \* what the function applied returned (or raised)
    stdout,          \* the lines printed so far
    np_url_dict,     \* __main__: the state index
    state_nps_list   \* __main__: the sites of the state listed last

vars == <<disk, calls, pc, args, ret, stdout, np_url_dict, state_nps_list>>

-----------------------------------------------------------------------------
(* Bounds of the model.                                                    *)

\* the number of cached-request calls one run of the cache model makes
MaxCalls == 3

-----------------------------------------------------------------------------
(* Program constants.                                                      *)

BASE_URL == "https://www.nps.gov"
MAP_URL == "http://www.mapquestapi.com/search/v2/radius"

-----------------------------------------------------------------------------
(* Python strings.                                                         *)

\* The characters of code points 32 to 126, in order; the three a TLA+
\* string cannot hold (code points 34, 92, 96) have a space in their place.
Ascii == " ! #$%&'()*+,-./0123456789:;<=>?@ABCDEFGHIJKLMNOPQRSTUVWXYZ[ ]^_ abcdefghijklmnopqrstuvwxyz{|}~"

Char(s, i) == SubSeq(s, i, i)

\* ord(c), for a character of Ascii
Ord(c) ==
    31 + CHOOSE i \in 1..Len(Ascii) :
            /\ Char(Ascii, i) = c
            /\ \A h \in 1..(i - 1) : Char(Ascii, h) # c

\* a < b on Python strings: by code point, a proper prefix first
RECURSIVE StrLess(_, _)
StrLess(a, b) ==
    IF b = "" THEN FALSE
    ELSE IF a = "" THEN TRUE
    ELSE IF Head(a) # Head(b) THEN Ord(Head(a)) < Ord(Head(b))
    ELSE StrLess(Tail(a), Tail(b))

\* sep.join(parts)
RECURSIVE Join(_, _)
Join(sep, parts) ==
    IF parts = <<>> THEN ""
    ELSE IF Len(parts) = 1 THEN parts[1]
    ELSE parts[1] \o sep \o Join(sep, Tail(parts))

\* str(n) of an integer
Digits == "0123456789"
RECURSIVE NatToStr(_)
NatToStr(n) ==
    IF n < 10 THEN Char(Digits, n + 1)
    ELSE NatToStr(n \div 10) \o Char(Digits, (n % 10) + 1)
IntToStr(n) == IF n < 0 THEN "-" \o NatToStr(-n) ELSE NatToStr(n)

\* The whitespace str.strip() removes (of the characters of the model).
IsSpace(c) == c \in {" ", "\n", "\t"}

RECURSIVE LStrip(_)
LStrip(s) == IF s # "" /\ IsSpace(Head(s)) THEN LStrip(Tail(s)) ELSE s

RECURSIVE RStrip(_)
RStrip(s) ==
    IF s # "" /\ IsSpace(Char(s, Len(s))) THEN RStrip(SubSeq(s, 1, Len(s) - 1)) ELSE s

\* A slip: only the whitespace in front is removed.
Strip_left(s) == LStrip(s)

\* s.strip()
Strip(s) == RStrip(LStrip(s))

Uppers == "ABCDEFGHIJKLMNOPQRSTUVWXYZ"
Lowers == "abcdefghijklmnopqrstuvwxyz"
IsUpper(c) == \E i \in 1..Len(Uppers) : Char(Uppers, i) = c
IsLower(c) == \E i \in 1..Len(Lowers) : Char(Lowers, i) = c
IndexIn(alphabet, c) == CHOOSE i \in 1..Len(alphabet) : Char(alphabet, i) = c
LowerChar(c) == IF IsUpper(c) THEN Char(Lowers, IndexIn(Uppers, c)) ELSE c
UpperChar(c) == IF IsLower(c) THEN Char(Uppers, IndexIn(Lowers, c)) ELSE c

\* s.lower()
RECURSIVE Lower(_)
Lower(s) == IF s = "" THEN "" ELSE LowerChar(Head(s)) \o Lower(Tail(s))

\* s.title(): a letter after a letter in lower case, any other letter in
\* upper case.  after says whether the character before s was a letter.
RECURSIVE TitleFrom(_, _)
TitleFrom(s, after) ==
    IF s = "" THEN ""
    ELSE LET c == Head(s)
             letter == IsUpper(c) \/ IsLower(c)
         IN  (IF after THEN LowerChar(c) ELSE UpperChar(c)) \o TitleFrom(Tail(s), letter)
Title(s) == TitleFrom(s, FALSE)

\* The list q with the string x put before the first element greater than x
\* (after the elements equal to it: the sort is stable).
RECURSIVE Insert(_, _)
Insert(q, x) ==
    IF q = <<>> THEN <<x>>
    ELSE IF StrLess(x, Head(q)) THEN <<x>> \o q
    ELSE <<Head(q)>> \o Insert(Tail(q), x)

\* A slip: the list is left in the order of insertion.
ListSort_none(q) == q

\* list.sort() on a list of strings
RECURSIVE ListSort(_)
ListSort(q) ==
    IF q = <<>> THEN <<>>
    ELSE Insert(ListSort(SubSeq(q, 1, Len(q) - 1)), q[Len(q)])

-----------------------------------------------------------------------------
(* Python values and raw text.                                             *)
(*                                                                         *)
(* A raw text (the content of a file, the body of an HTTP response) is     *)
(* [kind |-> "json", doc |-> J] when it is a JSON text of the JSON value   *)
(* J, [kind |-> "html", page |-> p] when it is an HTML page, and           *)
(* [kind |-> "junk"] for any other text.  A JSON value is a record with a  *)
(* field j ("object", "array", "string", "null"); a Python value is a      *)
(* record with a field t ("dict", "list", "str", "NoneType").              *)

PyStr(text) == [t |-> "str", s |-> text]
PyDict(f) == [t |-> "dict", d |-> f]
PyList(q) == [t |-> "list", items |-> q]
PyNone == [t |-> "NoneType"]
EmptyDict == PyDict(<<>>)

Returned(v) == [exc |-> "None", val |-> v]
Raised(e) == [exc |-> e, val |-> [t |-> "NoneType"]]

\* json.loads on the JSON value J: the Python value it decodes to
RECURSIVE FromJson(_)
FromJson(J) ==
    CASE J.j = "object" -> PyDict([k \in DOMAIN J.members |-> FromJson(J.members[k])])
      [] J.j = "array"  -> PyList([i \in DOMAIN J.items |-> FromJson(J.items[i])])
      [] J.j = "string" -> PyStr(J.s)
      [] J.j = "null"   -> PyNone

\* json.dumps on the Python value v: the JSON value it encodes to
RECURSIVE ToJson(_)
ToJson(v) ==
    CASE v.t = "dict"     -> [j |-> "object", members |-> [k \in DOMAIN v.d |-> ToJson(v.d[k])]]
      [] v.t = "list"     -> [j |-> "array", items |-> [i \in DOMAIN v.items |-> ToJson(v.items[i])]]
      [] v.t = "str"      -> [j |-> "string", s |-> v.s]
      [] v.t = "NoneType" -> [j |-> "null"]

\* json.loads(text): raises on a text that is not a JSON text
json_loads(text) ==
    IF text.kind = "json" THEN Returned(FromJson(text.doc)) ELSE Raised("JSONDecodeError")

\* json.dumps(v): the JSON text of v
json_dumps(v) == [kind |-> "json", doc |-> ToJson(v)]

\* The file CACHE_FILENAME does not exist.
NoFile == [kind |-> "missing"]

-----------------------------------------------------------------------------
(* The response cache.                                                     *)

\* open_cache(): the whole body is in one try / bare except
open_cache(file) ==
    IF file.kind = "missing" THEN EmptyDict                \* open() raises
    ELSE LET loaded == json_loads(file)
         IN  IF loaded.exc # "None" THEN EmptyDict         \* json.loads raises
             ELSE loaded.val

\* save_cache(cache_dict): the new content of the file
save_cache(cache_dict) == json_dumps(cache_dict)

\* A slip: the store is rebuilt with the new entry alone.
SetItem_alone(c, k, v) == PyDict([x \in {k} |-> v])

\* d[k] = v on a Python dict
SetItem(c, k, v) == PyDict([x \in DOMAIN c.d \cup {k} |-> IF x = k THEN v ELSE c.d[x]])

\* What a cached request gives: what it returned or raised, the file
\* afterwards, the number of requests.get calls made, the lines printed,
\* what open_cache gave.
Outcome(exc, val, file, fetches, out, opened) ==
    [exc |-> exc, val |-> val, file |-> file, fetches |-> fetches, out |-> out,
     opened |-> opened]

\* The store with the entry added, written to the file and returned.
Stored(stored, url, CACHE_DICT) ==
    Outcome("None", stored.d[url], save_cache(stored), 1, <<"Fetching">>, CACHE_DICT)

\* A slip: the failure of requests.get is swallowed and an empty body stored.
text_request_swallow(CACHE_DICT, url, file, net) ==
    IF CACHE_DICT.t # "dict"
    THEN Outcome("AttributeError", PyNone, file, 0, <<>>, CACHE_DICT)
    ELSE IF url \in DOMAIN CACHE_DICT.d
    THEN Outcome("None", CACHE_DICT.d[url], file, 0, <<"Using Cache">>, CACHE_DICT)
    ELSE Stored(SetItem(CACHE_DICT, url,
                        PyStr(IF net.ok THEN net.body ELSE [kind |-> "junk"])),
                url, CACHE_DICT)

\* make_request_with_cache(url) from "if (url in CACHE_DICT.keys())" on.
\* net is what requests.get(url) does if it is called: [ok |-> FALSE] (it
\* raises) or [ok |-> TRUE, body |-> the body of the response].
text_request(CACHE_DICT, url, file, net) ==
    IF CACHE_DICT.t # "dict"           \* CACHE_DICT.keys() on a list, a str, None
    THEN Outcome("AttributeError", PyNone, file, 0, <<>>, CACHE_DICT)
    ELSE IF url \in DOMAIN CACHE_DICT.d
    THEN Outcome("None", CACHE_DICT.d[url], file, 0, <<"Using Cache">>, CACHE_DICT)
    ELSE IF ~net.ok                    \* requests.get raises
    THEN Outcome("ConnectionError", PyNone, file, 1, <<"Fetching">>, CACHE_DICT)
    ELSE Stored(SetItem(CACHE_DICT, url, PyStr(net.body)), url, CACHE_DICT)  \* response.text

\* make_request_with_cache(url)
make_request_with_cache(url, file, net) == text_request(open_cache(file), url, file, net)

\* CACHE_DICT[url] = response.json() and what follows; parsed is what
\* response.json() gave.
StoredJson(CACHE_DICT, url, file, parsed) ==
    IF parsed.exc # "None"
    THEN Outcome(parsed.exc, PyNone, file, 1, <<"Fetching">>, CACHE_DICT)
    ELSE Stored(SetItem(CACHE_DICT, url, parsed.val), url, CACHE_DICT)

\* map_make_request_with_cache(url) from "if (url in CACHE_DICT.keys())" on
json_request(CACHE_DICT, url, file, net) ==
    IF CACHE_DICT.t # "dict"
    THEN Outcome("AttributeError", PyNone, file, 0, <<>>, CACHE_DICT)
    ELSE IF url \in DOMAIN CACHE_DICT.d
    THEN Outcome("None", CACHE_DICT.d[url], file, 0, <<"Using Cache">>, CACHE_DICT)
    ELSE IF ~net.ok
    THEN Outcome("ConnectionError", PyNone, file, 1, <<"Fetching">>, CACHE_DICT)
    ELSE StoredJson(CACHE_DICT, url, file, json_loads(net.body))   \* response.json()

\* map_make_request_with_cache(url)
map_make_request_with_cache(url, file, net) == json_request(open_cache(file), url, file, net)

-----------------------------------------------------------------------------
(* The cache on its own: any sequence of cached requests, in text mode and *)
(* in JSON mode, on a file that starts with any content.  Nothing but the  *)
(* program writes the file.                                                *)

JString(text) == [j |-> "string", s |-> text]
JObject(f) == [j |-> "object", members |-> f]
JArray(q) == [j |-> "array", items |-> q]
JNull == [j |-> "null"]
JsonText(J) == [kind |-> "json", doc |-> J]

HtmlA == [kind |-> "html", page |-> "A"]
HtmlB == [kind |-> "html", page |-> "B"]
Junk == [kind |-> "junk"]
PlacesX == JsonText(JObject([searchResults |-> JArray(<<>>)]))
PlacesY == JsonText(JObject([searchResults |-> JArray(<<JString(Junk)>>)]))

CacheKeys == {"https://www.nps.gov/index.htm", MAP_URL \o "?key=k&origin=49931"}

\* What requests.get may do: raise, or give a response with some body.
NetOutcomes == {[ok |-> FALSE]} \cup {[ok |-> TRUE, body |-> b] : b \in {HtmlA, HtmlB, PlacesX, PlacesY}}

\* The contents the file may start with: no file, a text that is no JSON, a
\* JSON text that is no object, an object with none, one or both keys.
StoredValues == {JString(HtmlA), JObject([searchResults |-> JArray(<<>>)])}
InitialObjects ==
    UNION {[K -> StoredValues] : K \in SUBSET CacheKeys}
InitialFiles ==
    {NoFile, Junk, HtmlA, JsonText(JNull), JsonText(JArray(<<>>)), JsonText(JString(Junk))}
    \cup {JsonText(JObject(f)) : f \in InitialObjects}

InitCache ==
    /\ disk \in InitialFiles
    /\ calls = <<>>
    /\ pc = "cache"
    /\ args = <<>>
    /\ ret = <<>>
    /\ stdout = <<>>
    /\ np_url_dict = <<>>
    /\ state_nps_list = <<>>

CallRecord(mode, url, net, before, r) ==
    [mode |-> mode, url |-> url, netok |-> net.ok, before |-> before, after |-> r.file,
     exc |-> r.exc, val |-> r.val, fetches |-> r.fetches, opened |-> r.opened]

TextRequest ==
    /\ pc = "cache"
    /\ Len(calls) < MaxCalls
    /\ \E url \in CacheKeys, net \in NetOutcomes :
          \E r \in {make_request_with_cache(url, disk, net)} :
              /\ disk' = r.file
              /\ calls' = Append(calls, CallRecord("text", url, net, disk, r))
              /\ stdout' = stdout \o r.out
    /\ UNCHANGED <<pc, args, ret, np_url_dict, state_nps_list>>

JsonRequest ==
    /\ pc = "cache"
    /\ Len(calls) < MaxCalls
    /\ \E url \in CacheKeys, net \in NetOutcomes :
          \E r \in {map_make_request_with_cache(url, disk, net)} :
              /\ disk' = r.file
              /\ calls' = Append(calls, CallRecord("json", url, net, disk, r))
              /\ stdout' = stdout \o r.out
    /\ UNCHANGED <<pc, args, ret, np_url_dict, state_nps_list>>

NextCache == TextRequest \/ JsonRequest

SpecCache == InitCache /\ [][NextCache]_vars

-----------------------------------------------------------------------------
(* The claims about the cache.                                             *)

\* The keys of the document on disk, and the value stored under one of them.
FileKeys(file) ==
    IF file.kind = "json" /\ file.doc.j = "object" THEN DOMAIN file.doc.members ELSE {}
FileValue(file, k) == file.doc.members[k]

\* requests.get raised, or response.json() did, in the call c.
FetchFailed(c) == c.exc \in {"ConnectionError", "JSONDecodeError"}

\* The file is missing, or holds anything but the JSON object of a cache.
MissingOrMalformed(file) == ~(file.kind = "json" /\ file.doc.j = "object")

\* C1 (cache idempotence): whatever the document on disk, of two successive
\* calls with the same key the second returns what the first returned and
\* makes no network call, so that the two make at most one in total.  (A
\* first call whose fetch failed is the subject of C9.)
C1_CacheIdempotence ==
    \A i \in 1..(Len(calls) - 1) :
        (calls[i].url = calls[i + 1].url /\ ~FetchFailed(calls[i]))
        => /\ calls[i].exc = "None"
           /\ calls[i + 1].exc = "None"
           /\ calls[i + 1].val = calls[i].val
           /\ calls[i + 1].fetches = 0
           /\ calls[i].fetches + calls[i + 1].fetches <= 1

\* C2 (cache store invariant): a step never removes a key of the document on
\* disk nor changes the value stored under it, and the only key a step adds
\* is the key of the call that missed.
C2_CacheStoreInvariant ==
    [][ /\ \A k \in FileKeys(disk) :
              k \in FileKeys(disk') /\ FileValue(disk', k) = FileValue(disk, k)
        /\ \A k \in FileKeys(disk') \ FileKeys(disk) :
              k = calls'[Len(calls')].url ]_vars

\* A miss was stored in a document that already held another key, and the
\* key was then hit.
C2_Witness ==
    \E i \in 1..(Len(calls) - 1) :
        /\ calls[i].fetches = 1 /\ calls[i].exc = "None"
        /\ FileKeys(calls[i].before) # {}
        /\ calls[i + 1].fetches = 0 /\ calls[i + 1].exc = "None"
        /\ calls[i + 1].mode # calls[i].mode

\* C3 (cache resilience): on a missing or malformed document open_cache gives
\* the empty store, and the cached request that follows goes on as a miss.
C3_CacheResilience ==
    \A i \in 1..Len(calls) :
        MissingOrMalformed(calls[i].before)
        => /\ calls[i].opened = EmptyDict
           /\ calls[i].exc # "AttributeError"
           /\ calls[i].fetches = 1

\* C9 (fetch failure on a miss): when requests.get raises in a call, the
\* call raises after that one attempt, the document on disk is as it was and
\* does not hold the key, and the next call with the key fetches again.
C9_FetchFailure ==
    \A i \in 1..Len(calls) :
        (calls[i].fetches >= 1 /\ ~calls[i].netok)
        => /\ calls[i].exc = "ConnectionError"
           /\ calls[i].fetches = 1
           /\ calls[i].after = calls[i].before
           /\ calls[i].url \notin FileKeys(calls[i].after)
           /\ (i < Len(calls) /\ calls[i + 1].url = calls[i].url)
                 => calls[i + 1].fetches = 1

\* A fetch failed, and the next call with the same key fetched and returned.
C9_Witness ==
    \E i \in 1..(Len(calls) - 1) :
        /\ calls[i].exc = "ConnectionError"
        /\ calls[i + 1].url = calls[i].url
        /\ calls[i + 1].fetches = 1
        /\ calls[i + 1].exc = "None"

-----------------------------------------------------------------------------
(* The key builder.                                                        *)
(*                                                                         *)
(* A parameter mapping is a Python dict, which keeps the order of          *)
(* insertion: a sequence of <<key, value>> pairs with distinct keys.  A    *)
(* value is a string or an integer.                                        *)

PyInt(n) == [t |-> "int", n |-> n]

\* f'{v}' of a parameter value
Format(v) == IF v.t = "int" THEN IntToStr(v.n) ELSE v.s

\* construct_unique_key(baseurl, params)
construct_unique_key(baseurl, params) ==
    LET param_strings == [i \in 1..Len(params) |-> params[i][1] \o "=" \o Format(params[i][2])]
        connector == "&"
    IN  baseurl \o "?" \o Join(connector, ListSort(param_strings))

\* the number of parameters of a mapping
MaxParams == 2

ParamKeys == {"a", "a1", "b", "B"}
ParamValues == {PyStr("1"), PyInt(2), PyInt(10)}
BaseUrls == {"http://x/y", MAP_URL}

\* The mappings of n parameters, in every order of insertion.
ParamLists(n) ==
    {q \in [1..n -> ParamKeys \X ParamValues] :
        \A i, h \in 1..n : i # h => q[i][1] # q[h][1]}

\* The permutations of 1..n.
Perms(n) == {f \in [1..n -> 1..n] : \A i, h \in 1..n : i # h => f[i] # f[h]}

InitKey ==
    /\ \E n \in 0..MaxParams : \E P1 \in ParamLists(n), f \in Perms(n), u \in BaseUrls :
          args = [baseurl |-> u, params |-> P1, params2 |-> [i \in 1..n |-> P1[f[i]]]]
    /\ pc = "key"
    /\ ret = <<>>
    /\ disk = NoFile
    /\ calls = <<>>
    /\ stdout = <<>>
    /\ np_url_dict = <<>>
    /\ state_nps_list = <<>>

\* The key of the mapping, and of the same mapping built in another order.
BuildKey ==
    /\ pc = "key"
    /\ pc' = "key_done"
    /\ ret' = [key |-> construct_unique_key(args.baseurl, args.params),
               key2 |-> construct_unique_key(args.baseurl, args.params2)]
    /\ UNCHANGED <<disk, calls, args, stdout, np_url_dict, state_nps_list>>

NextKey == BuildKey

SpecKey == InitKey /\ [][NextKey]_vars

\* The pairs of a mapping, as a set.
PairSet(P) == {P[i] : i \in 1..Len(P)}

\* C4 (key builder stability): two mappings with the same set of key/value
\* pairs get the same key, in whatever order they were built.
C4_KeyStability ==
    (pc = "key_done" /\ PairSet(args.params) = PairSet(args.params2))
    => ret.key = ret.key2

\* Two parameters were inserted in two different orders, the second of which
\* is not the sorted one.
C4_Witness ==
    /\ pc = "key_done"
    /\ Len(args.params) = 2
    /\ args.params2 # args.params
    /\ StrLess(args.params2[2][1], args.params2[1][1])

\* The 'key=value' string of a pair.
PairString(x) == x[1] \o "=" \o Format(x[2])

\* What a pair is ordered by: its key name, or its whole 'key=value' string.
SortKey(x, by) == IF by = "key name" THEN x[1] ELSE PairString(x)

\* The lists that hold the 'key=value' strings of P once each, in an order
\* in which no pair is followed by a pair of a lesser sort key.
Orderings(P, by) ==
    {[i \in 1..Len(P) |-> PairString(P[f[i]])] :
        f \in {g \in Perms(Len(P)) :
                 \A i \in 1..(Len(P) - 1) :
                    ~StrLess(SortKey(P[g[i + 1]], by), SortKey(P[g[i]], by))}}

\* C5 as stated (key builder format): the key is the base URL, '?', and the
\* 'key=value' pairs joined by '&' in the order of their key names.
C5_KeyFormat_ByKeyName ==
    pc = "key_done"
    => \E L \in Orderings(args.params, "key name") :
          ret.key = args.baseurl \o "?" \o Join("&", L)

\* C5 as amended: the key is the base URL, '?', and the 'key=value' strings
\* joined by '&' in the order of the strings themselves, by code point.
C5_KeyFormat ==
    pc = "key_done"
    => \E L \in Orderings(args.params, "whole string") :
          ret.key = args.baseurl \o "?" \o Join("&", L)

\* The example of the specification: {"b": 2, "a": 1} on "http://x/y" ...
\* here with the values of the model, {"b": 2, "a": "1"}.
C5_Witness ==
    /\ pc = "key_done"
    /\ args.baseurl = "http://x/y"
    /\ args.params = << <<"b", PyInt(2)>>, <<"a", PyStr("1")>> >>
    /\ ret.key = "http://x/y?a=1&b=2"

-----------------------------------------------------------------------------
(* The rendering of the places result.                                     *)

\* A slip: the test of the city looks at the address.
print_nearby_places_slip(map_api_dict) ==
    LET results_list == map_api_dict.d["searchResults"].items
        Line(result) ==
            LET place_name == result.d["name"].s
                category == result.d["fields"].d["group_sic_code_name"].s
                address == result.d["fields"].d["address"].s
                city == result.d["fields"].d["city"].s
                place_category == IF Len(category) = 0 THEN "no category" ELSE category
                place_address == IF Len(address) = 0 THEN "no address" ELSE address
                place_city == IF Len(address) = 0 THEN "no city" ELSE city
            IN  "- " \o place_name \o " (" \o place_category \o "): "
                     \o place_address \o ", " \o place_city
    IN  [i \in 1..Len(results_list) |-> Line(results_list[i])]

\* print_nearby_places(map_api_dict): the lines it prints
print_nearby_places(map_api_dict) ==
    LET results_list == map_api_dict.d["searchResults"].items
        Line(result) ==
            LET place_name == result.d["name"].s
                category == result.d["fields"].d["group_sic_code_name"].s
                address == result.d["fields"].d["address"].s
                city == result.d["fields"].d["city"].s
                place_category == IF Len(category) = 0 THEN "no category" ELSE category
                place_address == IF Len(address) = 0 THEN "no address" ELSE address
                place_city == IF Len(city) = 0 THEN "no city" ELSE city
            IN  "- " \o place_name \o " (" \o place_category \o "): "
                     \o place_address \o ", " \o place_city
    IN  [i \in 1..Len(results_list) |-> Line(results_list[i])]

\* the number of entries of a places result
MaxPlaces == 2

\* One entry of the searchResults list of the places API.
Place(name, category, address, city) ==
    PyDict([name |-> PyStr(name),
            fields |-> PyDict([group_sic_code_name |-> PyStr(category),
                               address |-> PyStr(address),
                               city |-> PyStr(city)])])

PlaceEntries ==
    {Place(n, g, a, c) : n \in {"Joe's", "Cafe"}, g \in {"", "Eating Places"},
                         a \in {"", "1 Main St"}, c \in {"", "Houghton"}}

PlacesResults ==
    {PyDict([searchResults |-> PyList(q)]) :
        q \in UNION {[1..n -> PlaceEntries] : n \in 0..MaxPlaces}}

InitPlaces ==
    /\ args \in {[map_api_dict |-> r] : r \in PlacesResults}
    /\ pc = "places"
    /\ ret = <<>>
    /\ disk = NoFile
    /\ calls = <<>>
    /\ stdout = <<>>
    /\ np_url_dict = <<>>
    /\ state_nps_list = <<>>

PrintPlaces ==
    /\ pc = "places"
    /\ pc' = "places_done"
    /\ stdout' = stdout \o print_nearby_places(args.map_api_dict)
    /\ UNCHANGED <<disk, calls, args, ret, np_url_dict, state_nps_list>>

NextPlaces == PrintPlaces

SpecPlaces == InitPlaces /\ [][NextPlaces]_vars

\* The text of a field of an entry, with its placeholder when it is empty.
Shown(text, placeholder) == IF text = "" THEN placeholder ELSE text

\* C8 (places rendering): one line for each entry, in the order of the
\* result, "- {name} ({category}): {address}, {city}", a field being its
\* placeholder exactly when it is the empty string.
C8_PlacesRendering ==
    pc = "places_done"
    => LET entries == args.map_api_dict.d["searchResults"].items
       IN  /\ Len(stdout) = Len(entries)
           /\ \A i \in 1..Len(entries) :
                 LET f == entries[i].d["fields"].d
                 IN  stdout[i] =
                        "- " \o entries[i].d["name"].s
                             \o " (" \o Shown(f["group_sic_code_name"].s, "no category")
                             \o "): " \o Shown(f["address"].s, "no address")
                             \o ", " \o Shown(f["city"].s, "no city")

\* Two entries were printed, the first with an address and no city, the
\* second with a city.
C8_Witness ==
    /\ pc = "places_done"
    /\ Len(stdout) = 2
    /\ stdout[1] = "- Joe's (no category): 1 Main St, no city"
    /\ stdout[2] = "- Cafe (Eating Places): no address, Houghton"

-----------------------------------------------------------------------------
(* The pages of the parks site.                                            *)
(*                                                                         *)
(* BeautifulSoup gives the elements a page holds; the model keeps, of a    *)
(* page, the elements the program looks for.  soup.find(...) of an element *)
(* that is not there is None, on which .text, .find and .find_all raise    *)
(* AttributeError.                                                         *)

NoElem == [present |-> FALSE]
Elem(text) == [present |-> TRUE, text |-> text]

\* <div class="Hero-titleContainer clearfix"> with its <a> and its
\* <span class="Hero-designation"> (in a <div class="Hero-designationContainer">)
Hero(a, designation) == [present |-> TRUE, a |-> a, designation |-> designation]

\* <div class="SearchBar-keywordSearch ..."> with, for each <li>, the string
\* and the href of its <a>
Nav(items) == [present |-> TRUE, items |-> items]

\* The element id="list_parks" with, for each <h3>, the href of its <a>
ListParks(hrefs) == [present |-> TRUE, hrefs |-> hrefs]

\* A page with none of the elements: what BeautifulSoup makes of a text that
\* is no page of the site.
EmptyPage ==
    [hero |-> NoElem, adr |-> FALSE, locality |-> NoElem, region |-> NoElem,
     postalCode |-> NoElem, telephone |-> NoElem, nav |-> NoElem, parks |-> NoElem]

HtmlPage(page) == [kind |-> "html", page |-> page]

\* BeautifulSoup(url_text, 'html.parser')
BeautifulSoup(url_text) ==
    IF url_text.t # "str" THEN Raised("TypeError")
    ELSE IF url_text.s.kind = "html" THEN Returned(url_text.s.page)
    ELSE Returned(EmptyPage)

NationalSite(category, name, address, zipcode, phone) ==
    [category |-> category, name |-> name, address |-> address, zipcode |-> zipcode,
     phone |-> phone]

\* NationalSite.info()
info(site) ==
    site.name \o " (" \o site.category \o "): " \o site.address \o " " \o site.zipcode

\* What a function that makes cached requests gives: what it returned or
\* raised, the file afterwards, the number of requests.get calls made, the
\* lines printed.
Result(exc, val, file, fetches, out) ==
    [exc |-> exc, val |-> val, file |-> file, fetches |-> fetches, out |-> out]

\* get_site_instance(site_url) from the page on: got is what
\* make_request_with_cache gave, parsed what BeautifulSoup gave.
site_from_soup(got, parsed) ==
    IF got.exc # "None" THEN Result(got.exc, PyNone, got.file, got.fetches, got.out)
    ELSE IF parsed.exc # "None"
    THEN Result(parsed.exc, PyNone, got.file, got.fetches, got.out)
    ELSE IF \/ ~parsed.val.hero.present                 \* site_head_parent is None
            \/ ~parsed.val.hero.a.present
            \/ ~parsed.val.hero.designation.present
            \/ parsed.val.adr /\ ~parsed.val.locality.present
            \/ parsed.val.adr /\ ~parsed.val.region.present
            \/ parsed.val.adr /\ ~parsed.val.postalCode.present
            \/ ~parsed.val.telephone.present
    THEN Result("AttributeError", PyNone, got.file, got.fetches, got.out)
    ELSE Result("None",
                NationalSite(parsed.val.hero.designation.text,
                             parsed.val.hero.a.text,
                             IF parsed.val.adr
                             THEN parsed.val.locality.text \o ", " \o parsed.val.region.text
                             ELSE "No address",
                             IF parsed.val.adr THEN Strip(parsed.val.postalCode.text)
                             ELSE "No zipcode",
                             Strip(parsed.val.telephone.text)),
                got.file, got.fetches, got.out)

\* get_site_instance(site_url) from "soup = BeautifulSoup(...)" on
site_from_text(got) == site_from_soup(got, BeautifulSoup(got.val))

\* get_site_instance(site_url)
get_site_instance(site_url, file, net) ==
    site_from_text(make_request_with_cache(site_url, file, net))

\* The detail pages of the model: each element there or not.
DetailPages ==
    {[EmptyPage EXCEPT !.hero = h, !.adr = adr, !.locality = l, !.region = r,
                       !.postalCode = z, !.telephone = t] :
        h \in {NoElem} \cup {Hero(a, d) : a \in {NoElem, Elem("Isle Royale")},
                                          d \in {NoElem, Elem(""), Elem("National Park")}},
        adr \in BOOLEAN,
        l \in {NoElem, Elem("Houghton")},
        r \in {NoElem, Elem("MI")},
        z \in {NoElem, Elem("49931"), Elem(" 82190-0168\n")},
        t \in {NoElem, Elem("\n(906) 482-0984 ")}}

\* The cache file holding the text under the url, as save_cache writes it.
CacheHolding(url, text) == save_cache(PyDict([k \in {url} |-> PyStr(text)]))

InitSite ==
    /\ \E page \in DetailPages, url \in {BASE_URL \o "/isro/index.htm"} :
          /\ args = [site_url |-> url, page |-> page]
          /\ disk \in {NoFile, CacheHolding(url, HtmlPage(page))}
    /\ pc = "site"
    /\ ret = <<>>
    /\ calls = <<>>
    /\ stdout = <<>>
    /\ np_url_dict = <<>>
    /\ state_nps_list = <<>>

\* get_site_instance on the page, which the site serves unless it is down.
GetSite ==
    /\ pc = "site"
    /\ pc' = "site_done"
    /\ \E net \in {[ok |-> FALSE], [ok |-> TRUE, body |-> HtmlPage(args.page)]} :
          \E r \in {get_site_instance(args.site_url, disk, net)} :
              /\ ret' = r
              /\ disk' = r.file
              /\ stdout' = stdout \o r.out
    /\ UNCHANGED <<calls, args, np_url_dict, state_nps_list>>

NextSite == GetSite

SpecSite == InitSite /\ [][NextSite]_vars

\* The page has the elements of the header: the name and the category.
HasHeader(page) ==
    page.hero.present /\ page.hero.a.present /\ page.hero.designation.present

\* The page has the three elements the address is made of.
HasAddressParts(page) ==
    page.locality.present /\ page.region.present /\ page.postalCode.present

\* z is text without the whitespace around it.
IsTrimOf(z, text) ==
    /\ \E i \in 1..(Len(text) + 1), h \in 0..Len(text) :
          /\ z = SubSeq(text, i, h)
          /\ \A x \in (1..(i - 1)) \cup ((h + 1)..Len(text)) : IsSpace(Char(text, x))
    /\ z # "" => ~IsSpace(Char(z, 1)) /\ ~IsSpace(Char(z, Len(z)))

\* What the claim says of the record made from the page.
AddressAsClaimed(page, r) ==
    /\ r.exc = "None"
    /\ ~page.adr => r.val.address = "No address" /\ r.val.zipcode = "No zipcode"
    /\ page.adr => /\ r.val.address = page.locality.text \o ", " \o page.region.text
                   /\ IsTrimOf(r.val.zipcode, page.postalCode.text)

\* C6 as stated (address absence handling): of every page with the header
\* elements, fetched or cached, a record is made: without an address block
\* with "No address" and "No zipcode", with one (and its parts) with
\* "{locality}, {region}" and the trimmed postal code.
C6_AddressHandling_AsStated ==
    (/\ pc = "site_done"
     /\ ret.exc # "ConnectionError"
     /\ HasHeader(args.page)
     /\ args.page.adr => HasAddressParts(args.page))
    => AddressAsClaimed(args.page, ret)

\* C6 as amended: the same of every page that also has the telephone element.
C6_AddressHandling ==
    (/\ pc = "site_done"
     /\ ret.exc # "ConnectionError"
     /\ HasHeader(args.page)
     /\ args.page.telephone.present
     /\ args.page.adr => HasAddressParts(args.page))
    => AddressAsClaimed(args.page, ret)

\* A record was made of a page without an address block.
C6_Witness ==
    /\ pc = "site_done"
    /\ ret.exc = "None"
    /\ ~args.page.adr
    /\ ret.val.address = "No address"
    /\ ret.val.zipcode = "No zipcode"
    /\ ret.val.phone = "(906) 482-0984"

-----------------------------------------------------------------------------
(* The state index.                                                        *)

\* state_url_dict[state_tag.string.lower()] = BASE_URL + state_tag['href']:
\* an item with the key of an earlier one takes its place.
WithState(state_url_dict, state_tag) ==
    [k \in DOMAIN state_url_dict \cup {Lower(state_tag.string)} |->
        IF k = Lower(state_tag.string) THEN BASE_URL \o state_tag.href
        ELSE state_url_dict[k]]

\* The dict after the loop over the items.
RECURSIVE StateUrlDict(_)
StateUrlDict(items) ==
    IF items = <<>> THEN <<>>
    ELSE WithState(StateUrlDict(SubSeq(items, 1, Len(items) - 1)), items[Len(items)])

\* build_state_url_dict() from the page on
index_from_soup(got, parsed) ==
    IF got.exc # "None" THEN Result(got.exc, PyNone, got.file, got.fetches, got.out)
    ELSE IF parsed.exc # "None"
    THEN Result(parsed.exc, PyNone, got.file, got.fetches, got.out)
    ELSE IF ~parsed.val.nav.present              \* state_list_parent is None
    THEN Result("AttributeError", PyNone, got.file, got.fetches, got.out)
    ELSE Result("None", StateUrlDict(parsed.val.nav.items), got.file, got.fetches, got.out)

\* build_state_url_dict() from "soup = BeautifulSoup(...)" on
index_from_text(got) == index_from_soup(got, BeautifulSoup(got.val))

\* build_state_url_dict()
build_state_url_dict(file, net) ==
    index_from_text(make_request_with_cache("https://www.nps.gov/index.htm", file, net))

\* the number of states in the navigation widget of a homepage
MaxStates == 2

StateTags ==
    {[string |-> n, href |-> h] :
        n \in {"Michigan", "Ohio", "New York"},
        h \in {"/state/mi/index.htm", "/state/oh/index.htm",
               "https://www.nps.gov/state/mi/index.htm"}}

\* The homepages of the model: without the widget, or with the widget and
\* up to MaxStates states of different names.
HomePages ==
    {EmptyPage}
    \cup {[EmptyPage EXCEPT !.nav = Nav(q)] :
            q \in {x \in UNION {[1..n -> StateTags] : n \in 0..MaxStates} :
                     \A i, h \in DOMAIN x : i # h => x[i].string # x[h].string}}

InitIndex ==
    /\ \E page \in HomePages :
          /\ args = [page |-> page]
          /\ disk \in {NoFile, CacheHolding("https://www.nps.gov/index.htm", HtmlPage(page))}
    /\ pc = "index"
    /\ ret = <<>>
    /\ calls = <<>>
    /\ stdout = <<>>
    /\ np_url_dict = <<>>
    /\ state_nps_list = <<>>

\* build_state_url_dict on the homepage, which the site serves unless it is
\* down.
BuildIndex ==
    /\ pc = "index"
    /\ pc' = "index_done"
    /\ \E net \in {[ok |-> FALSE], [ok |-> TRUE, body |-> HtmlPage(args.page)]} :
          \E r \in {build_state_url_dict(disk, net)} :
              /\ ret' = r
              /\ disk' = r.file
              /\ stdout' = stdout \o r.out
              /\ np_url_dict' = IF r.exc = "None" THEN r.val ELSE np_url_dict
    /\ UNCHANGED <<calls, args, state_nps_list>>

NextIndex == BuildIndex

SpecIndex == InitIndex /\ [][NextIndex]_vars

\* The href is a path on the site, not a URL with its own origin.
IsRelativePath(href) == href # "" /\ Head(href) = "/"

\* C7 (state index construction): every entry (name, href) of the widget is
\* in the index under its name in lower case, with the href itself when it
\* is an absolute URL and the href after the base origin when it is a path.
C7_StateIndex ==
    (pc = "index_done" /\ ret.exc = "None")
    => \A i \in DOMAIN args.page.nav.items :
          LET tag == args.page.nav.items[i]
          IN  /\ Lower(tag.string) \in DOMAIN np_url_dict
              /\ np_url_dict[Lower(tag.string)] =
                    IF IsRelativePath(tag.href) THEN BASE_URL \o tag.href ELSE tag.href

-----------------------------------------------------------------------------
(* The sites of a state and the places near a site.                        *)

\* What requests.get(url) does: up says whether it reaches the site, Web[url]
\* is what the site serves at the url.
NetAt(url, up, Web) == IF up THEN [ok |-> TRUE, body |-> Web[url]] ELSE [ok |-> FALSE]

\* park_instance_list.append(parkinstance), unless get_site_instance raised
Appended(before, parkinstance) ==
    Result(parkinstance.exc,
           IF parkinstance.exc = "None" THEN Append(before.val, parkinstance.val)
           ELSE PyNone,
           parkinstance.file, before.fetches + parkinstance.fetches,
           before.out \o parkinstance.out)

\* One pass of the loop over the parks, after the passes before it.
NextPark(before, park_url, up, Web) ==
    IF before.exc # "None" THEN before
    ELSE Appended(before, get_site_instance(park_url, before.file, NetAt(park_url, up, Web)))

\* The loop over the parks of a listing, in the order of the page.
RECURSIVE ParkInstances(_, _, _, _)
ParkInstances(park_refs, file, up, Web) ==
    IF park_refs = <<>> THEN Result("None", <<>>, file, 0, <<>>)
    ELSE NextPark(ParkInstances(SubSeq(park_refs, 1, Len(park_refs) - 1), file, up, Web),
                  BASE_URL \o park_refs[Len(park_refs)] \o "index.htm", up, Web)

\* return park_instance_list, after the request of the listing
Listed(got, sites) ==
    Result(sites.exc, sites.val, sites.file, got.fetches + sites.fetches,
           got.out \o sites.out)

\* get_sites_for_state(state_url) from the page on
sites_from_soup(got, parsed, up, Web) ==
    IF got.exc # "None" THEN Result(got.exc, PyNone, got.file, got.fetches, got.out)
    ELSE IF parsed.exc # "None"
    THEN Result(parsed.exc, PyNone, got.file, got.fetches, got.out)
    ELSE IF ~parsed.val.parks.present            \* park_info_parent is None
    THEN Result("AttributeError", PyNone, got.file, got.fetches, got.out)
    ELSE Listed(got, ParkInstances(parsed.val.parks.hrefs, got.file, up, Web))

\* get_sites_for_state(state_url) from "soup = BeautifulSoup(...)" on
sites_from_text(got, up, Web) == sites_from_soup(got, BeautifulSoup(got.val), up, Web)

\* get_sites_for_state(state_url)
get_sites_for_state(state_url, file, up, Web) ==
    sites_from_text(make_request_with_cache(state_url, file, NetAt(state_url, up, Web)),
                    up, Web)

\* secrets.CONSUMER_KEY
consumer_key == "KEY"

\* The parameters of the places request, in the order the dict is written.
PlacesParams(origin) ==
    << <<"origin", PyStr(origin)>>, <<"radius", PyInt(10)>>, <<"maxMatches", PyInt(10)>>,
       <<"ambiguities", PyStr("ignore")>>, <<"outFormat", PyStr("json")>>,
       <<"key", PyStr(consumer_key)>> >>

\* get_nearby_places(site_object) from the key on
places_at(map_api_key, file, up, Web) ==
    map_make_request_with_cache(map_api_key, file, NetAt(map_api_key, up, Web))

\* get_nearby_places(site_object)
get_nearby_places(site_object, file, up, Web) ==
    places_at(construct_unique_key(MAP_URL, PlacesParams(site_object.zipcode)),
              file, up, Web)

-----------------------------------------------------------------------------
(* The interactive loop.                                                   *)

\* str.isnumeric(): every character is numeric and there is at least one.
\* The superscript two is numeric and is no decimal digit.
IsDecimalChar(c) == \E i \in 1..Len(Digits) : Char(Digits, i) = c
IsNumericChar(c) == IsDecimalChar(c) \/ c = "²"
isnumeric(s) == s # "" /\ \A i \in 1..Len(s) : IsNumericChar(Char(s, i))

\* The number a string of decimal digits writes.
RECURSIVE DecimalValue(_)
DecimalValue(s) ==
    IF s = "" THEN 0
    ELSE 10 * DecimalValue(SubSeq(s, 1, Len(s) - 1)) + (IndexIn(Digits, Char(s, Len(s))) - 1)

\* int(s) of a string of numeric characters: raises unless all are decimal
\* digits
int(s) ==
    IF \A i \in 1..Len(s) : IsDecimalChar(Char(s, i))
    THEN Returned(DecimalValue(s)) ELSE Raised("ValueError")

RECURSIVE Repeat(_, _)
Repeat(s, n) == IF n = 0 THEN "" ELSE s \o Repeat(s, n - 1)
Dashes == Repeat("-", 40)

StatePromptText == "Enter a state name (e.g. Michigan, michigan) or 'exit': "
SelectPromptText == "Choose the number for detail search or 'exit' or 'back': "

\* What reading one line at a prompt leads to: where the program is next,
\* what was raised, the file, the sites listed, the requests.get calls made
\* and the lines printed meanwhile.
Handled(next, exc, file, sites, fetches, out) ==
    [pc |-> next, exc |-> exc, file |-> file, sites |-> sites, fetches |-> fetches,
     out |-> out]

\* The listing of the sites: f"[{num}] {park.info()}" for each.
Listing(park_list) ==
    [num \in 1..Len(park_list) |->
        "[" \o IntToStr(num) \o "] " \o info(park_list[num])]

\* The outer loop after get_sites_for_state, which gave got.
state_listed(head, sites, got) ==
    IF got.exc # "None"
    THEN Handled("crashed", got.exc, got.file, sites, got.fetches, head \o got.out)
    ELSE Handled("select_prompt", "None", got.file, got.val, got.fetches,
                 head \o got.out \o Listing(got.val) \o <<Dashes>>)

\* The body of the outer loop for the line state, up to the inner loop.
StateLine(state, url_dict, sites, file, up, Web) ==
    IF Lower(state) = "exit"
    THEN Handled("exited", "SystemExit", file, sites, 0, <<StatePromptText>>)
    ELSE IF Lower(state) \notin DOMAIN url_dict
    THEN Handled("state_prompt", "None", file, sites, 0,
                 <<StatePromptText, "[Error] Enter a state name.\n">>)
    ELSE state_listed(<<StatePromptText, Dashes,
                        "List of national sites in " \o Title(state)>>,
                      sites,
                      get_sites_for_state(url_dict[Lower(state)], file, up, Web))

\* The inner loop after get_nearby_places, which gave got:
\* print_nearby_places raises on a result that is no dict with searchResults.
places_printed(sites, got) ==
    IF got.exc # "None"
    THEN Handled("crashed", got.exc, got.file, sites, got.fetches,
                 <<SelectPromptText>> \o got.out)
    ELSE IF got.val.t # "dict"
    THEN Handled("crashed", "TypeError", got.file, sites, got.fetches,
                 <<SelectPromptText>> \o got.out)
    ELSE IF "searchResults" \notin DOMAIN got.val.d
    THEN Handled("crashed", "KeyError", got.file, sites, got.fetches,
                 <<SelectPromptText>> \o got.out)
    ELSE Handled("select_prompt", "None", got.file, sites, got.fetches,
                 <<SelectPromptText>> \o got.out \o print_nearby_places(got.val))

\* The inner loop for a line of numeric characters; n is what int(num) gave.
number_chosen(n, sites, file, up, Web) ==
    IF n.exc # "None"
    THEN Handled("crashed", n.exc, file, sites, 0, <<SelectPromptText>>)
    ELSE IF ~(n.val >= 1 /\ n.val <= Len(sites))
    THEN Handled("select_prompt", "None", file, sites, 0,
                 <<SelectPromptText, "[Error] Invalid Input", Dashes>>)
    ELSE places_printed(sites, get_nearby_places(sites[n.val], file, up, Web))

\* The body of the inner loop for the line num.
SelectLine(num, sites, file, up, Web) ==
    IF num = "exit"
    THEN Handled("exited", "SystemExit", file, sites, 0, <<SelectPromptText>>)
    ELSE IF num = "back"
    THEN Handled("state_prompt", "None", file, sites, 0, <<SelectPromptText>>)
    ELSE IF ~isnumeric(num)
    THEN Handled("select_prompt", "None", file, sites, 0,
                 <<SelectPromptText, "[Error] Invalid Input", Dashes>>)
    ELSE number_chosen(int(num), sites, file, up, Web)

\* the number of lines one run of the program reads
MaxInputs == 3

\* The site of the model: a homepage with two states, a state with two
\* parks (one without an address block) and a state with none; anything
\* else is a page with none of the elements.  The places API answers with a
\* result for each origin.
HomeUrl == "https://www.nps.gov/index.htm"
HomePage ==
    [EmptyPage EXCEPT !.nav = Nav(<<[string |-> "Michigan", href |-> "/state/mi/index.htm"],
                                    [string |-> "Ohio", href |-> "/state/oh/index.htm"]>>)]
MichiganPage == [EmptyPage EXCEPT !.parks = ListParks(<<"/isro/", "/piro/">>)]
OhioPage == [EmptyPage EXCEPT !.parks = ListParks(<<>>)]
IsroPage ==
    [EmptyPage EXCEPT !.hero = Hero(Elem("Isle Royale"), Elem("National Park")),
                      !.adr = TRUE, !.locality = Elem("Houghton"), !.region = Elem("MI"),
                      !.postalCode = Elem("49931 "), !.telephone = Elem("(906) 482-0984")]
PiroPage ==
    [EmptyPage EXCEPT !.hero = Hero(Elem("Pictured Rocks"), Elem("National Lakeshore")),
                      !.telephone = Elem(" (906) 387-3700")]
PlacesNear(origin) == construct_unique_key(MAP_URL, PlacesParams(origin))
SiteUrls ==
    {HomeUrl, BASE_URL \o "/state/mi/index.htm", BASE_URL \o "/state/oh/index.htm",
     BASE_URL \o "/isro/index.htm", BASE_URL \o "/piro/index.htm",
     PlacesNear("49931"), PlacesNear("No zipcode")}
TheWeb ==
    [url \in SiteUrls |->
        CASE url = HomeUrl -> HtmlPage(HomePage)
          [] url = BASE_URL \o "/state/mi/index.htm" -> HtmlPage(MichiganPage)
          [] url = BASE_URL \o "/state/oh/index.htm" -> HtmlPage(OhioPage)
          [] url = BASE_URL \o "/isro/index.htm" -> HtmlPage(IsroPage)
          [] url = BASE_URL \o "/piro/index.htm" -> HtmlPage(PiroPage)
          [] url = PlacesNear("49931") ->
                json_dumps(PyDict([searchResults |->
                    PyList(<<Place("Suomi Restaurant", "Eating Places", "54 Huron St", "")>>)]))
          [] url = PlacesNear("No zipcode") ->
                json_dumps(PyDict([searchResults |-> PyList(<<>>)]))]

\* The lines typed at the two prompts.
StateInputs == {"exit", "Exit", "michigan", "MICHIGAN", "ohio", "texas", ""}
SelectInputs == {"exit", "back", "Back", "EXIT", "1", "02", "3", "0", "one", "", "-1", "²"}

\* What the last step of the program did.
Step(prompt, input, h) ==
    [prompt |-> prompt, input |-> input, exc |-> h.exc, fetches |-> h.fetches,
     printed |-> h.out]

InitMain ==
    /\ disk \in {NoFile, CacheHolding(HomeUrl, HtmlPage(HomePage)), JsonText(JNull)}
    /\ pc = "start"
    /\ args = <<>>
    /\ ret = [prompt |-> "none", input |-> "", exc |-> "None", fetches |-> 0,
              printed |-> <<>>]
    /\ calls = <<>>
    /\ stdout = <<>>
    /\ np_url_dict = <<>>
    /\ state_nps_list = <<>>

\* np_url_dict = build_state_url_dict()
Start ==
    /\ pc = "start"
    /\ \E up \in BOOLEAN :
          \E r \in {build_state_url_dict(disk, NetAt(HomeUrl, up, TheWeb))} :
              /\ disk' = r.file
              /\ stdout' = stdout \o r.out
              /\ np_url_dict' = IF r.exc = "None" THEN r.val ELSE np_url_dict
              /\ pc' = IF r.exc = "None" THEN "state_prompt" ELSE "crashed"
              /\ ret' = [prompt |-> "start", input |-> "", exc |-> r.exc,
                         fetches |-> r.fetches, printed |-> r.out]
    /\ UNCHANGED <<calls, args, state_nps_list>>

\* One line read at the state prompt.
StatePrompt ==
    /\ pc = "state_prompt"
    /\ Len(args) < MaxInputs
    /\ \E state \in StateInputs, up \in BOOLEAN :
          \E h \in {StateLine(state, np_url_dict, state_nps_list, disk, up, TheWeb)} :
              /\ args' = Append(args, state)
              /\ pc' = h.pc
              /\ disk' = h.file
              /\ state_nps_list' = h.sites
              /\ stdout' = stdout \o h.out
              /\ ret' = Step("state", state, h)
    /\ UNCHANGED <<calls, np_url_dict>>

\* One line read at the selection prompt.
SelectPrompt ==
    /\ pc = "select_prompt"
    /\ Len(args) < MaxInputs
    /\ \E num \in SelectInputs, up \in BOOLEAN :
          \E h \in {SelectLine(num, state_nps_list, disk, up, TheWeb)} :
              /\ args' = Append(args, num)
              /\ pc' = h.pc
              /\ disk' = h.file
              /\ state_nps_list' = h.sites
              /\ stdout' = stdout \o h.out
              /\ ret' = Step("select", num, h)
    /\ UNCHANGED <<calls, np_url_dict>>

NextMain == Start \/ StatePrompt \/ SelectPrompt

SpecMain == InitMain /\ [][NextMain]_vars

\* The line writes a number of 1..n in decimal digits.
IsNumberUpTo(line, n) ==
    /\ line # ""
    /\ \A i \in 1..Len(line) : Char(line, i) \in {"0", "1", "2", "3", "4", "5", "6", "7", "8", "9"}
    /\ DecimalValue(line) \in 1..n

\* The step printed no trace of a cached request and made no network call.
NoRequest(step) ==
    /\ step.fetches = 0
    /\ \A i \in 1..Len(step.printed) : step.printed[i] \notin {"Fetching", "Using Cache"}

\* C10 (interactive loop): a line at the state prompt that is neither exit
\* nor a state of the index (in any case of letters), and a line at the
\* selection prompt that is not exit, not back and not a number of 1..N,
\* gets an error message, no request, and the same prompt again; back leads
\* to the state prompt and exit ends the program at either prompt.
C10_InteractiveLoop ==
    /\ (ret.prompt = "state" /\ Lower(ret.input) # "exit"
                             /\ Lower(ret.input) \notin DOMAIN np_url_dict)
       => /\ pc = "state_prompt"
          /\ \E i \in 1..Len(ret.printed) : ret.printed[i] = "[Error] Enter a state name.\n"
          /\ NoRequest(ret)
    /\ (ret.prompt = "select" /\ ret.input \notin {"exit", "back"}
                              /\ ~IsNumberUpTo(ret.input, Len(state_nps_list)))
       => /\ pc = "select_prompt"
          /\ \E i \in 1..Len(ret.printed) : ret.printed[i] = "[Error] Invalid Input"
          /\ NoRequest(ret)
    /\ (ret.prompt = "select" /\ ret.input = "back") => pc = "state_prompt"
    /\ (ret.prompt = "select" /\ ret.input = "exit") => pc = "exited"
    /\ (ret.prompt = "state" /\ Lower(ret.input) = "exit") => pc = "exited"

=============================================================================
